---- MODULE Spec2Model ----
(***************************************************************************)
(* Model of the page table (os/src/mm/page_table.rs: PageTable and         *)
(* translated_byte_buffer) and of the memory syscalls                      *)
(* (os/src/syscall/process.rs): sys_mmap, sys_munmap, sys_get_time and     *)
(* sys_task_info.  Spec runs the syscalls, SpecPT the PageTable calls.     *)
(*                                                                         *)
(* Widths are scaled down so that the state space is finite: a page holds  *)
(* PAGE_SIZE bytes, a table ENTRIES entries, a usize counts modulo USIZE   *)
(* and a physical page number modulo PPN_MOD.  The shape of the code is    *)
(* kept: three levels, the ppn at bit 10 of an entry, the flag bits of     *)
(* PTEFlags.                                                               *)
(***************************************************************************)
EXTENDS Integers, Sequences, FiniteSets, TLC

\* ------------------------------------------------------------------ widths
\* bytes per page (config::PAGE_SIZE, 4096 in the kernel)
PAGE_SIZE == 4
\* entries of one table page, one index of VirtPageNum::indexes (512)
ENTRIES == 2
\* a usize counts modulo USIZE (2^64)
USIZE == 64
\* PageTableEntry::ppn and from_token keep the low 44 bits (2^44)
PPN_MOD == 16
\* 1 << 60, the place of the paging mode in a token; it lies above the ppn
\* bits as in the kernel (2^60 above 2^44)
SATP_MODE == 64
\* size_of::<TimeVal>(): two usize fields
TIMEVAL_SIZE == 2
\* size_of::<TaskInfo>(): status, the syscall table, the time
TASKINFO_SIZE == 3

\* ------------------------------------------------------------------ bounds
\* physical frames the frame allocator manages: 1..NFrames
NFrames == 4
\* syscalls of one run
MaxCalls == 3
\* the requests start in pages 0..MaxPage
MaxPage == 2
\* a request spans at most MaxSpan pages
MaxSpan == 2

Frames == 1..NFrames
\* pages of the virtual address space the three indices address
NPages == ENTRIES * ENTRIES * ENTRIES
VA_SIZE == NPages * PAGE_SIZE
\* the port values the requests carry: no bit, R|W, a bit outside 0..2
Ports == {0, 3, 8}

\* ------------------------------------------------------------------ PTEFlags
PTE_V == 1
PTE_R == 2
PTE_W == 4
PTE_X == 8
PTE_U == 16

\* bit b (a power of two) of x is set
HasBit(x, b) == (x \div b) % 2 = 1
\* x | b for a single bit b
BitOr(x, b) == IF HasBit(x, b) THEN x ELSE x + b

\* ------------------------------------------------------------------ PageTableEntry
PTE_new(ppn, flags) == ppn * 1024 + flags
PTE_empty == 0
PTE_ppn(bits) == (bits \div 1024) % PPN_MOD
PTE_flags(bits) == bits % 256
PTE_is_valid(bits) == HasBit(PTE_flags(bits), PTE_V)

\* a zeroed page seen as an array of entries
ZeroPage == [i \in 0..(ENTRIES - 1) |-> PTE_empty]

\* ------------------------------------------------------------------ addresses
\* VirtPageNum::indexes: three indices, most significant first
indexes(vpn) == << (vpn \div (ENTRIES * ENTRIES)) % ENTRIES,
                   (vpn \div ENTRIES) % ENTRIES,
                   vpn % ENTRIES >>
\* VirtAddr::floor
floor(va) == va \div PAGE_SIZE
\* VirtAddr::page_offset
page_offset(va) == va % PAGE_SIZE

\* ------------------------------------------------------------------ state
VARIABLES
    mem,             \* physical memory: the entries each frame holds
    free,            \* the frame allocator's free list (a stack)
    page_table,      \* the task's PageTable: root_ppn and frames
    overflow_checks, \* the build panics on arithmetic overflow (else wraps)
    halt,            \* "none", or the panic that stopped the kernel
    last,            \* the last call: op, the exit it took, ret, and of
                     \* its request whether start was aligned, and port
    given,           \* ppn handed to each page by the last sys_mmap
    written,         \* physical byte addresses the last record write hit
    view_mutated,    \* the last call mutated a from_token PageTable
    cycle,           \* progress of an mmap, munmap, mmap of one range
    ncalls           \* syscalls made so far

vars == << mem, free, page_table, overflow_checks, halt, last, given,
           written, view_mutated, cycle, ncalls >>

\* kernel state threaded through one handler: memory, free list, the task's
\* PageTable.frames, the panic, the ppn each page got, whether a
\* from_token PageTable was mutated
K(m, f, fr) == [mem |-> m, free |-> f, frames |-> fr, halt |-> "none",
                given |-> << >>, view_mutated |-> FALSE]

\* a PageTable built by from_token owns no frame; one built by new() owns
\* at least its root
is_view(pt) == pt.frames = << >>

\* ------------------------------------------------------------------ frame allocator
\* frame_alloc: pops the free list, the frame is handed out zeroed
frame_alloc(k) ==
    IF k.free = << >>
    THEN [some |-> FALSE, ppn |-> 0, k |-> k]
    ELSE [some |-> TRUE, ppn |-> Head(k.free),
          k |-> [k EXCEPT !.free = Tail(k.free),
                          !.mem = [k.mem EXCEPT ![Head(k.free)] = ZeroPage]]]

\* drop of a FrameTracker: the frame goes back on the free list
frame_dealloc(k, ppn) == [k EXCEPT !.free = << ppn >> \o k.free]

\* ------------------------------------------------------------------ PageTable
\* a | b on the bits of two numbers
RECURSIVE bit_or(_, _)
bit_or(a, b) ==
    IF a = 0 THEN b
    ELSE IF b = 0 THEN a
    ELSE (IF a % 2 = 1 \/ b % 2 = 1 THEN 1 ELSE 0)
         + 2 * bit_or(a \div 2, b \div 2)

\* PageTable::token: 8usize << 60 | self.root_ppn.0
token(pt) == bit_or(8 * SATP_MODE, pt.root_ppn)

\* from_token that keeps one bit less of the token
from_token_short(satp) ==
    [root_ppn |-> satp % (PPN_MOD \div 2), frames |-> << >>]

\* PageTable::from_token: a view without frames
from_token(satp) == [root_ppn |-> satp % PPN_MOD, frames |-> << >>]

\* current_user_token: the token of the running task's page table
current_user_token == token(page_table)

\* find_pte: the walk from table ppn at level i; the slot of the leaf entry
RECURSIVE find_pte_walk(_, _, _, _)
find_pte_walk(m, ppn, idxs, i) ==
    LET pte == m[ppn][idxs[i]] IN
    IF i = 3 THEN [some |-> TRUE, ppn |-> ppn, idx |-> idxs[i]]
    ELSE IF ~PTE_is_valid(pte) THEN [some |-> FALSE, ppn |-> 0, idx |-> 0]
    ELSE find_pte_walk(m, PTE_ppn(pte), idxs, i + 1)

find_pte(m, pt, vpn) == find_pte_walk(m, pt.root_ppn, indexes(vpn), 1)

\* find_pte_create: the same walk, a missing table is allocated and pushed
\* on frames; frame_alloc().unwrap() panics when no frame is left
\* a find_pte_create that does not push the new table on frames
RECURSIVE find_pte_create_walk_no_push(_, _, _, _)
find_pte_create_walk_no_push(k, ppn, idxs, i) ==
    LET pte == k.mem[ppn][idxs[i]] IN
    IF i = 3 THEN [some |-> TRUE, ppn |-> ppn, idx |-> idxs[i], k |-> k]
    ELSE IF ~PTE_is_valid(pte)
    THEN LET a == frame_alloc(k) IN
         IF ~a.some
         THEN [some |-> FALSE, ppn |-> 0, idx |-> 0,
               k |-> [k EXCEPT !.halt = "alloc_unwrap"]]
         ELSE LET k2 == [a.k EXCEPT
                           !.mem[ppn][idxs[i]] = PTE_new(a.ppn, PTE_V)]
              IN find_pte_create_walk_no_push(k2, a.ppn, idxs, i + 1)
    ELSE find_pte_create_walk_no_push(k, PTE_ppn(pte), idxs, i + 1)

RECURSIVE find_pte_create_walk(_, _, _, _)
find_pte_create_walk(k, ppn, idxs, i) ==
    LET pte == k.mem[ppn][idxs[i]] IN
    IF i = 3 THEN [some |-> TRUE, ppn |-> ppn, idx |-> idxs[i], k |-> k]
    ELSE IF ~PTE_is_valid(pte)
    THEN LET a == frame_alloc(k) IN
         IF ~a.some
         THEN [some |-> FALSE, ppn |-> 0, idx |-> 0,
               k |-> [k EXCEPT !.halt = "alloc_unwrap"]]
         ELSE LET k2 == [a.k EXCEPT
                           !.mem[ppn][idxs[i]] = PTE_new(a.ppn, PTE_V),
                           !.frames = Append(k.frames, a.ppn)]
              IN find_pte_create_walk(k2, a.ppn, idxs, i + 1)
    ELSE find_pte_create_walk(k, PTE_ppn(pte), idxs, i + 1)

find_pte_create(k, pt, vpn) ==
    find_pte_create_walk(k, pt.root_ppn, indexes(vpn), 1)

\* map that writes the flags as given, without the Valid bit
map_keep_flags(k, pt, vpn, ppn, flags) ==
    LET s == find_pte_create(k, pt, vpn) IN
    IF s.k.halt # "none" THEN s.k
    ELSE IF PTE_is_valid(s.k.mem[s.ppn][s.idx])
    THEN [s.k EXCEPT !.halt = "map_assert"]
    ELSE [s.k EXCEPT !.mem[s.ppn][s.idx] = PTE_new(ppn, flags),
                     !.view_mutated = @ \/ is_view(pt)]

\* PageTable::map
map(k, pt, vpn, ppn, flags) ==
    LET s == find_pte_create(k, pt, vpn) IN
    IF s.k.halt # "none" THEN s.k
    ELSE IF PTE_is_valid(s.k.mem[s.ppn][s.idx])
    THEN [s.k EXCEPT !.halt = "map_assert"]
    ELSE [s.k EXCEPT !.mem[s.ppn][s.idx] = PTE_new(ppn, BitOr(flags, PTE_V)),
                     !.view_mutated = @ \/ is_view(pt)]

\* unmap that clears the Valid bit and leaves the rest of the entry
unmap_clear_valid(k, pt, vpn) ==
    LET s == find_pte(k.mem, pt, vpn) IN
    IF ~s.some THEN [k EXCEPT !.halt = "unmap_unwrap"]
    ELSE IF ~PTE_is_valid(k.mem[s.ppn][s.idx])
    THEN [k EXCEPT !.halt = "unmap_assert"]
    ELSE [k EXCEPT !.mem[s.ppn][s.idx] = @ - PTE_V,
                   !.view_mutated = @ \/ is_view(pt)]

\* unmap without the assertion: an invalid leaf is overwritten as well
unmap_no_assert(k, pt, vpn) ==
    LET s == find_pte(k.mem, pt, vpn) IN
    IF ~s.some THEN [k EXCEPT !.halt = "unmap_unwrap"]
    ELSE [k EXCEPT !.mem[s.ppn][s.idx] = PTE_empty,
                   !.view_mutated = @ \/ is_view(pt)]

\* unmap that hands the frame of the entry back to the allocator
unmap_release(k, pt, vpn) ==
    LET s == find_pte(k.mem, pt, vpn) IN
    IF ~s.some THEN [k EXCEPT !.halt = "unmap_unwrap"]
    ELSE IF ~PTE_is_valid(k.mem[s.ppn][s.idx])
    THEN [k EXCEPT !.halt = "unmap_assert"]
    ELSE frame_dealloc([k EXCEPT !.mem[s.ppn][s.idx] = PTE_empty,
                                 !.view_mutated = @ \/ is_view(pt)],
                       PTE_ppn(k.mem[s.ppn][s.idx]))

\* PageTable::unmap
unmap(k, pt, vpn) ==
    LET s == find_pte(k.mem, pt, vpn) IN
    IF ~s.some THEN [k EXCEPT !.halt = "unmap_unwrap"]
    ELSE IF ~PTE_is_valid(k.mem[s.ppn][s.idx])
    THEN [k EXCEPT !.halt = "unmap_assert"]
    ELSE [k EXCEPT !.mem[s.ppn][s.idx] = PTE_empty,
                   !.view_mutated = @ \/ is_view(pt)]

\* a find_pte that allocates the missing tables, as find_pte_create does
find_pte_step_walk_alloc(k, ppn, idxs, i) ==
    find_pte_create_walk(k, ppn, idxs, i)

\* find_pte as a step of the kernel: the slot it returns and the state the
\* walk leaves; no statement of the walk writes an entry, allocates, or
\* pushes on frames
RECURSIVE find_pte_step_walk(_, _, _, _)
find_pte_step_walk(k, ppn, idxs, i) ==
    LET pte == k.mem[ppn][idxs[i]] IN
    IF i = 3 THEN [some |-> TRUE, ppn |-> ppn, idx |-> idxs[i], k |-> k]
    ELSE IF ~PTE_is_valid(pte)
    THEN [some |-> FALSE, ppn |-> 0, idx |-> 0, k |-> k]
    ELSE find_pte_step_walk(k, PTE_ppn(pte), idxs, i + 1)

\* translate as a step of the kernel: the copy of the entry, and the state
translate_step(k, pt, vpn) ==
    LET s == find_pte_step_walk(k, pt.root_ppn, indexes(vpn), 1) IN
    IF s.some THEN [some |-> TRUE, bits |-> s.k.mem[s.ppn][s.idx], k |-> s.k]
    ELSE [some |-> FALSE, bits |-> 0, k |-> s.k]

\* PageTable::translate
translate(m, pt, vpn) ==
    LET s == find_pte(m, pt, vpn) IN
    IF s.some THEN [some |-> TRUE, bits |-> m[s.ppn][s.idx]]
    ELSE [some |-> FALSE, bits |-> 0]

\* task::map_inner: map on the page table of the running task's memory set
map_inner(k, vpn, ppn, flags) ==
    map(k, [root_ppn |-> page_table.root_ppn, frames |-> k.frames],
        vpn, ppn, flags)

\* ------------------------------------------------------------------ usize
usize_wrap(x) == x % USIZE
usize_ovf(x) == x < 0 \/ x >= USIZE

\* let end = _start + _len - 1
span_last(start, len) == usize_wrap(usize_wrap(start + len) - 1)
\* the span end rounded down instead of up
span_bound_floor(end) == usize_wrap((end \div PAGE_SIZE) * PAGE_SIZE)

\* ( end / PAGE_SIZE + 1 ) * PAGE_SIZE
span_bound(end) == usize_wrap((end \div PAGE_SIZE + 1) * PAGE_SIZE)
\* one of the three operations leaves the usize range
span_overflows(start, len) ==
    \/ usize_ovf(start + len)
    \/ usize_ovf(usize_wrap(start + len) - 1)
    \/ usize_ovf((span_last(start, len) \div PAGE_SIZE + 1) * PAGE_SIZE)

\* ------------------------------------------------------------------ sys_mmap
\* PTEFlags::U | other_flags
mmap_flags(port) ==
    LET w == IF HasBit(port, 2) THEN PTE_W ELSE 0
        r == IF HasBit(port, 1) THEN PTE_R ELSE 0
        x == IF HasBit(port, 4) THEN PTE_X ELSE 0
    IN PTE_U + w + r + x

\* a check that looks at the first page of the span only
mmap_check_first_page(m, pt, binder, bound) ==
    IF binder < bound
    THEN LET t == translate(m, pt, floor(binder)) IN ~(t.some /\ t.bits # 0)
    ELSE TRUE

\* the check loop: TRUE when no page of the span has an entry with bits # 0
RECURSIVE mmap_check(_, _, _, _)
mmap_check(m, pt, binder, bound) ==
    IF binder < bound
    THEN LET t == translate(m, pt, floor(binder)) IN
         IF t.some /\ t.bits # 0 THEN FALSE
         ELSE mmap_check(m, pt, binder + PAGE_SIZE, bound)
    ELSE TRUE

\* an allocate loop that, when the allocator has no frame, takes back the
\* page mapped before and stops
RECURSIVE mmap_apply_rollback(_, _, _, _)
mmap_apply_rollback(k, binder, bound, flags) ==
    IF k.halt = "none" /\ binder < bound
    THEN LET a == frame_alloc(k)
             k1 == IF a.some THEN frame_dealloc(a.k, a.ppn) ELSE a.k
             k2 == [k1 EXCEPT !.given = Append(@, a.ppn)]
         IN IF ~a.some
            THEN IF k.given = << >> THEN k2
                 ELSE unmap(k2, [root_ppn |-> page_table.root_ppn,
                                 frames |-> k.frames],
                            floor(binder) - 1)
            ELSE mmap_apply_rollback(
                     map_inner(k2, floor(binder), a.ppn, flags),
                     binder + PAGE_SIZE, bound, flags)
    ELSE k

\* the allocate loop: a frame per page, its tracker dropped at once, then
\* map_inner with the ppn (0 when the allocator had none)
RECURSIVE mmap_apply(_, _, _, _)
mmap_apply(k, binder, bound, flags) ==
    IF k.halt = "none" /\ binder < bound
    THEN LET a == frame_alloc(k)
             k1 == IF a.some THEN frame_dealloc(a.k, a.ppn) ELSE a.k
             k2 == [k1 EXCEPT !.given = Append(@, a.ppn)]
             k3 == map_inner(k2, floor(binder), a.ppn, flags)
         IN mmap_apply(k3, binder + PAGE_SIZE, bound, flags)
    ELSE k

\* the state the check loop of sys_mmap leaves, at the return -1 or at the
\* end of the loop
RECURSIVE mmap_check_step(_, _, _, _)
mmap_check_step(k, pt, binder, bound) ==
    IF binder < bound
    THEN LET t == translate_step(k, pt, floor(binder)) IN
         IF t.some /\ t.bits # 0 THEN t.k
         ELSE mmap_check_step(t.k, pt, binder + PAGE_SIZE, bound)
    ELSE k

\* the result of a handler: the state it leaves, the exit it took, the
\* value it returned (ret means nothing when the handler panicked)
Result(k, exit, ret) ==
    [k |-> k, exit |-> IF k.halt = "none" THEN exit ELSE "panic", ret |-> ret]

\* sys_mmap that tests the low three bits of port and not the others
sys_mmap_low_bits(k, start, len, port) ==
    IF port % 8 = 0 \/ start % PAGE_SIZE # 0
    THEN Result(k, "invalid", -1)
    ELSE LET pt == from_token(current_user_token)
             bound == span_bound(span_last(start, len))
         IN IF overflow_checks /\ span_overflows(start, len)
            THEN Result([k EXCEPT !.halt = "arith_overflow"], "panic", 0)
            ELSE IF ~mmap_check(k.mem, pt, start, bound)
            THEN Result(k, "conflict", -1)
            ELSE Result(mmap_apply(k, start, bound, mmap_flags(port)),
                        "done", 0)

sys_mmap(k, start, len, port) ==
    IF port % 8 = 0 \/ port \div 8 # 0 \/ start % PAGE_SIZE # 0
    THEN Result(k, "invalid", -1)
    ELSE LET pt == from_token(current_user_token)
             bound == span_bound(span_last(start, len))
         IN IF overflow_checks /\ span_overflows(start, len)
            THEN Result([k EXCEPT !.halt = "arith_overflow"], "panic", 0)
            ELSE IF ~mmap_check(k.mem, pt, start, bound)
            THEN Result(k, "conflict", -1)
            ELSE Result(mmap_apply(k, start, bound, mmap_flags(port)),
                        "done", 0)

\* ------------------------------------------------------------------ sys_munmap
\* the check loop: FALSE when a page of the span has an entry with bits = 0
RECURSIVE munmap_check(_, _, _, _)
munmap_check(m, pt, binder, bound) ==
    IF binder < bound
    THEN LET t == translate(m, pt, floor(binder)) IN
         IF t.some /\ t.bits = 0 THEN FALSE
         ELSE munmap_check(m, pt, binder + PAGE_SIZE, bound)
    ELSE TRUE

\* the state the check loop of sys_munmap leaves
RECURSIVE munmap_check_step(_, _, _, _)
munmap_check_step(k, pt, binder, bound) ==
    IF binder < bound
    THEN LET t == translate_step(k, pt, floor(binder)) IN
         IF t.some /\ t.bits = 0 THEN t.k
         ELSE munmap_check_step(t.k, pt, binder + PAGE_SIZE, bound)
    ELSE k

\* the second loop: PageTable::unmap(&mut pt, vpn) on every page
RECURSIVE munmap_apply(_, _, _, _)
munmap_apply(k, pt, binder, bound) ==
    IF k.halt = "none" /\ binder < bound
    THEN munmap_apply(unmap(k, pt, floor(binder)), pt,
                      binder + PAGE_SIZE, bound)
    ELSE k

\* sys_munmap without the test of start
sys_munmap_any_start(k, start, len) ==
    LET pt == from_token(current_user_token)
        bound == span_bound(span_last(start, len))
    IN IF overflow_checks /\ span_overflows(start, len)
       THEN Result([k EXCEPT !.halt = "arith_overflow"], "panic", 0)
       ELSE IF ~munmap_check(k.mem, pt, start, bound)
       THEN Result(k, "absent", -1)
       ELSE Result(munmap_apply(k, pt, start, bound), "done", 0)

sys_munmap(k, start, len) ==
    IF start % PAGE_SIZE # 0
    THEN Result(k, "invalid", -1)
    ELSE LET pt == from_token(current_user_token)
             bound == span_bound(span_last(start, len))
         IN IF overflow_checks /\ span_overflows(start, len)
            THEN Result([k EXCEPT !.halt = "arith_overflow"], "panic", 0)
            ELSE IF ~munmap_check(k.mem, pt, start, bound)
            THEN Result(k, "absent", -1)
            ELSE Result(munmap_apply(k, pt, start, bound), "done", 0)

\* ------------------------------------------------------------------ record writes
\* sys_get_time, sys_task_info: the record is written through one raw
\* pointer, ppn * PAGE_SIZE + page_offset of the first page; size bytes
\* follow each other in physical memory.  translate(..).unwrap() panics
\* when the walk finds no leaf slot.  The result lists, per byte, the user
\* virtual address and the physical address written.
record_write(k, ptr, size) ==
    LET pt == from_token(current_user_token)
        t == translate(k.mem, pt, floor(ptr))
        pa == PTE_ppn(t.bits) * PAGE_SIZE + page_offset(ptr)
    IN IF ~t.some
       THEN [k |-> [k EXCEPT !.halt = "translate_unwrap"], exit |-> "panic",
             ret |-> 0, bytes |-> << >>]
       ELSE [k |-> k, exit |-> "done", ret |-> 0,
             bytes |-> [i \in 1..size |->
                          [va |-> ptr + i - 1, pa |-> pa + i - 1]]]

sys_get_time(k, ts) == record_write(k, ts, TIMEVAL_SIZE)

sys_task_info(k, ti) == record_write(k, ti, TASKINFO_SIZE)

\* ------------------------------------------------------------------ translated_byte_buffer
Min(a, b) == IF a < b THEN a ELSE b

\* VirtAddr::from(VirtPageNum): the first address of the page
vpn_to_va(vpn) == vpn * PAGE_SIZE

\* a window that always ends at the page offset of end_va
tbb_window_to_offset(ppn, start_va, end_va) ==
    [ppn |-> ppn, lo |-> page_offset(start_va), hi |-> page_offset(end_va)]

\* the slice pushed for one page: bytes lo..hi-1 of frame ppn; the slice
\* runs to the end of the page when end_va is the start of the next page
tbb_window(ppn, start_va, end_va) ==
    IF page_offset(end_va) = 0
    THEN [ppn |-> ppn, lo |-> page_offset(start_va), hi |-> PAGE_SIZE]
    ELSE [ppn |-> ppn, lo |-> page_offset(start_va),
          hi |-> page_offset(end_va)]

\* the loop: translate(vpn).unwrap() panics when the walk finds no leaf
\* slot; the ppn is read from the entry whatever its Valid bit
RECURSIVE tbb_loop(_, _, _, _, _)
tbb_loop(m, pt, start, end, v) ==
    IF start < end
    THEN LET vpn == floor(start)
             t == translate(m, pt, vpn)
             end_va == Min(vpn_to_va(vpn + 1), end)
         IN IF ~t.some
            THEN [halt |-> "translate_unwrap", v |-> << >>]
            ELSE tbb_loop(m, pt, end_va, end,
                          Append(v, tbb_window(PTE_ppn(t.bits), start,
                                               end_va)))
    ELSE [halt |-> "none", v |-> v]

translated_byte_buffer(k, tok, ptr, len) ==
    LET r == tbb_loop(k.mem, from_token(tok), ptr, ptr + len, << >>)
    IN [k |-> [k EXCEPT !.halt = r.halt],
        exit |-> IF r.halt = "none" THEN "done" ELSE "panic",
        ret |-> 0, bytes |-> r.v]

\* ------------------------------------------------------------------ requests
Starts == {pg * PAGE_SIZE + off : pg \in 0..MaxPage, off \in {0, 1}}
Lens == {n \in {q * PAGE_SIZE + d : q \in 0..MaxSpan, d \in {0, 1}} :
            n <= MaxSpan * PAGE_SIZE}
Ptrs == {pg * PAGE_SIZE + off : pg \in 0..MaxPage, off \in {0, PAGE_SIZE - 1}}

\* ------------------------------------------------------------------ Init
\* PageTable::new() on a fresh allocator: the root is the first frame
Init ==
    /\ mem = [f \in Frames |-> ZeroPage]
    /\ free = [i \in 1..(NFrames - 1) |-> i + 1]
    /\ page_table = [root_ppn |-> 1, frames |-> << 1 >>]
    /\ overflow_checks \in BOOLEAN
    /\ halt = "none"
    /\ last = [op |-> "none", exit |-> "none", ret |-> 0,
               aligned |-> TRUE, port |-> 0]
    /\ given = << >>
    /\ written = << >>
    /\ view_mutated = FALSE
    /\ cycle = [phase |-> 0, start |-> 0, len |-> 0]
    /\ ncalls = 0

CanCall == halt = "none" /\ ncalls < MaxCalls

\* the kernel state a handler starts from
Now == K(mem, free, page_table.frames)

\* progress of the sequence: sys_mmap of a range returns 0 (phase 1), then
\* sys_munmap of the same range returns 0 (phase 2), then sys_mmap of the
\* same range with a valid port is called (phase 3)
NextCycle(op, start, len, port, r) ==
    IF /\ cycle.phase = 2 /\ op = "mmap" /\ port \in 1..7
       /\ start = cycle.start /\ len = cycle.len
    THEN [phase |-> 3, start |-> start, len |-> len]
    ELSE IF op = "mmap" /\ r.exit = "done" /\ len > 0
    THEN [phase |-> 1, start |-> start, len |-> len]
    ELSE IF /\ cycle.phase = 1 /\ op = "munmap" /\ r.exit = "done"
            /\ start = cycle.start /\ len = cycle.len
    THEN [phase |-> 2, start |-> start, len |-> len]
    ELSE [phase |-> 0, start |-> 0, len |-> 0]

\* the state a handler leaves, and the bookkeeping of the call
Commit(op, start, len, port, r) ==
    /\ mem' = r.k.mem
    /\ free' = r.k.free
    /\ page_table' = [page_table EXCEPT !.frames = r.k.frames]
    /\ halt' = r.k.halt
    /\ last' = [op |-> op, exit |-> r.exit, ret |-> r.ret,
                aligned |-> start % PAGE_SIZE = 0, port |-> port]
    /\ given' = r.k.given
    /\ view_mutated' = r.k.view_mutated
    /\ cycle' = NextCycle(op, start, len, port, r)
    /\ ncalls' = ncalls + 1
    /\ UNCHANGED overflow_checks

\* requests stay inside the virtual address space the indices address
InRange(start, len) == start + len <= VA_SIZE

SysMmap(start, len, port) ==
    /\ CanCall
    /\ InRange(start, len)
    /\ Commit("mmap", start, len, port, sys_mmap(Now, start, len, port))
    /\ written' = << >>

SysMunmap(start, len) ==
    /\ CanCall
    /\ InRange(start, len)
    /\ Commit("munmap", start, len, 0, sys_munmap(Now, start, len))
    /\ written' = << >>

SysGetTime(ts) ==
    /\ CanCall
    /\ Commit("get_time", ts, 0, 0, sys_get_time(Now, ts))
    /\ written' = sys_get_time(Now, ts).bytes

SysTaskInfo(ti) ==
    /\ CanCall
    /\ Commit("task_info", ti, 0, 0, sys_task_info(Now, ti))
    /\ written' = sys_task_info(Now, ti).bytes

Next ==
    \/ \E start \in Starts, len \in Lens, port \in Ports :
          SysMmap(start, len, port)
    \/ \E start \in Starts, len \in Lens : SysMunmap(start, len)
    \/ \E ts \in Ptrs : SysGetTime(ts)
    \/ \E ti \in Ptrs : SysTaskInfo(ti)

Spec == Init /\ [][Next]_vars

\* ------------------------------------------------------------------ PageTable calls
\* the PageTable interface called directly on the table built by new():
\* map, unmap, and translated_byte_buffer with the table's token
MapPages == 0..MaxPage
\* map is called with ppn 3 and no flag, or the largest ppn and R | U
MapArgs == {<< 3, 0 >>, << PPN_MOD - 1, PTE_R + PTE_U >>}
BufPtrs == {pg * PAGE_SIZE + off : pg \in 0..MaxPage, off \in {0, 1}}
BufLens == {0, PAGE_SIZE - 1, PAGE_SIZE, PAGE_SIZE + 1}

PTMap(vpn, ppn, flags) ==
    /\ CanCall
    /\ Commit("map", vpn_to_va(vpn), 0, 0,
              Result(map(Now, page_table, vpn, ppn, flags), "done", 0))
    /\ written' = << >>

PTUnmap(vpn) ==
    /\ CanCall
    /\ Commit("unmap", vpn_to_va(vpn), 0, 0,
              Result(unmap(Now, page_table, vpn), "done", 0))
    /\ written' = << >>

PTTranslatedByteBuffer(ptr, len) ==
    /\ CanCall
    /\ InRange(ptr, len)
    /\ Commit("buffer", ptr, len, 0,
              translated_byte_buffer(Now, token(page_table), ptr, len))
    /\ written' = translated_byte_buffer(Now, token(page_table), ptr,
                                         len).bytes

NextPT ==
    \/ \E vpn \in MapPages, pf \in MapArgs : PTMap(vpn, pf[1], pf[2])
    \/ \E vpn \in MapPages : PTUnmap(vpn)
    \/ \E ptr \in BufPtrs, len \in BufLens : PTTranslatedByteBuffer(ptr, len)

SpecPT == Init /\ [][NextPT]_vars

\* ================================================================== claims
\* ------------------------------------------------------------------ vocabulary
Range(q) == {q[i] : i \in DOMAIN q}
Pages == 0..(NPages - 1)
\* the leaf entry of page v, read through the task's page table
Leaf(m, v) == translate(m, page_table, v)
\* page v holds a valid translation
Mapped(m, v) == Leaf(m, v).some /\ PTE_is_valid(Leaf(m, v).bits)
\* what page v translates to: nothing, or a ppn with flags
Translation(m, v) ==
    IF Mapped(m, v)
    THEN [mapped |-> TRUE, ppn |-> PTE_ppn(Leaf(m, v).bits),
          flags |-> PTE_flags(Leaf(m, v).bits)]
    ELSE [mapped |-> FALSE, ppn |-> 0, flags |-> 0]
\* the pages with VPN in [start / PAGE, ceil((start + len) / PAGE))
SpanPages(start, len) ==
    {v \in Pages : start \div PAGE_SIZE <= v /\ v * PAGE_SIZE < start + len}
\* the requests the claims range over: the page-aligned starts and the
\* lengths of the model's requests (whole pages, and one byte more), with
\* every valid port or with the valid ports of the model's requests
AlignedStarts == {start \in Starts : start % PAGE_SIZE = 0}
ValidPorts == 1..7
ReqPorts == Ports \cap ValidPorts
\* the states the handlers are applied to: a call can be made, and the
\* kernel state (mem, free, page_table) is taken once, where a call that
\* returned 0 left it; a call that fails or only writes a record hands on
\* the kernel state it found
CallPoint ==
    /\ CanCall
    /\ last.op \in {"none", "mmap", "munmap"}
    /\ last.exit \in {"none", "done"}
\* the handler leaves memory, the allocator and the frame set as they are
Untouched(r) ==
    /\ r.k.mem = mem
    /\ r.k.free = free
    /\ r.k.frames = page_table.frames

\* ------------------------------------------------------------------ C1
\* C1: no sequence of sys_mmap and sys_munmap calls reaches a fatal halt:
\* the assertion of PageTable::map, the assertion of PageTable::unmap and
\* the unwrap of PageTable::unmap never fire.
C1_NoFatalHalt == halt \notin {"map_assert", "unmap_assert", "unmap_unwrap"}

\* ------------------------------------------------------------------ C2
\* C2: sys_munmap with a page-aligned start returns -1 and modifies no
\* entry whenever a page of the span holds no valid translation, be it
\* that its table is missing or that only a later page is unmapped.
C2_MunmapAbsentRejected ==
    CallPoint =>
      \A start \in AlignedStarts, len \in Lens :
        (InRange(start, len)
           /\ \E v \in SpanPages(start, len) : ~Mapped(mem, v))
        => LET r == sys_munmap(Now, start, len)
           IN r.exit = "absent" /\ r.ret = -1 /\ r.k.mem = mem

\* ------------------------------------------------------------------ C3
\* C3: sys_mmap with a page-aligned start and a valid port returns -1 and
\* leaves every entry and the frame allocator unchanged whenever a page of
\* the span already holds a valid translation.
C3_MmapOverlapRejected ==
    CallPoint =>
      \A start \in AlignedStarts, len \in Lens, port \in ReqPorts :
        (InRange(start, len)
           /\ \E v \in SpanPages(start, len) : Mapped(mem, v))
        => LET r == sys_mmap(Now, start, len, port)
           IN r.exit = "conflict" /\ r.ret = -1 /\ Untouched(r)

\* an mmap was rejected for overlap with pages 0 and 1 mapped and page 2
\* free: mmap [0, 2 pages) followed by mmap [1 page, 3 pages)
C3_Witness ==
    /\ last.op = "mmap" /\ last.exit = "conflict" /\ last.ret = -1
    /\ Mapped(mem, 0) /\ Mapped(mem, 1) /\ ~Mapped(mem, 2)

\* ------------------------------------------------------------------ C4
\* the flags the claim gives a page mapped with port
ClaimedFlags(port) ==
    PTE_V + PTE_U
    + (IF port % 2 = 1 THEN PTE_R ELSE 0)
    + (IF (port \div 2) % 2 = 1 THEN PTE_W ELSE 0)
    + (IF (port \div 4) % 2 = 1 THEN PTE_X ELSE 0)

\* C4: when sys_mmap with len > 0 returns 0, every page of the span was
\* unmapped and is now mapped with flags V | U | R/W/X as port bits 0/1/2
\* say, and the translation of every page outside the span is unchanged.
C4_MmapMapsSpan ==
    CallPoint =>
      \A start \in AlignedStarts, len \in Lens \ {0}, port \in ValidPorts :
        InRange(start, len)
        => LET r == sys_mmap(Now, start, len, port)
           IN r.exit = "done"
              => /\ r.ret = 0
                 /\ \A v \in Pages :
                      IF v \in SpanPages(start, len)
                      THEN /\ ~Mapped(mem, v)
                           /\ Mapped(r.k.mem, v)
                           /\ Translation(r.k.mem, v).flags
                                = ClaimedFlags(port)
                      ELSE Translation(r.k.mem, v) = Translation(mem, v)

\* an mmap of two pages returned 0
C4_Witness ==
    /\ last.op = "mmap" /\ last.exit = "done" /\ last.ret = 0
    /\ Len(given) = 2

\* ------------------------------------------------------------------ C5
\* C5: the frame of every valid leaf entry is held (not on the allocator's
\* free list), is no frame of the page table itself, and backs no other
\* mapped page.
C5_FramesExclusivelyHeld ==
    \A v \in Pages :
      Mapped(mem, v)
      => LET p == Translation(mem, v).ppn
         IN /\ p \in Frames
            /\ p \notin Range(free)
            /\ p \notin Range(page_table.frames)
            /\ \A w \in Pages \ {v} :
                 Mapped(mem, w) => Translation(mem, w).ppn # p

\* ------------------------------------------------------------------ C6
\* C6: after sys_mmap of a range returned 0 and sys_munmap of the same range
\* returned 0, sys_mmap of the same range with any valid port returns 0.
C6_RemapAfterUnmap ==
    /\ cycle.phase = 3 => last.exit = "done" /\ last.ret = 0
    /\ CallPoint =>
         \A start \in AlignedStarts, len \in Lens \ {0},
            port \in ReqPorts :
           InRange(start, len)
           => LET r1 == sys_mmap(Now, start, len, port)
                  r2 == sys_munmap(r1.k, start, len)
              IN (r1.exit = "done" /\ r2.exit = "done")
                 => \A port2 \in ReqPorts :
                      LET r3 == sys_mmap(r2.k, start, len, port2)
                      IN r3.exit = "done" /\ r3.ret = 0

\* the three calls were made, on a range of two pages
C6_Witness ==
    /\ cycle.phase = 3 /\ cycle.len = 2 * PAGE_SIZE
    /\ last.exit = "done" /\ Len(given) = 2

\* ------------------------------------------------------------------ C7
\* C7: no map or unmap is performed on a PageTable built by from_token.
C7_NoMutationThroughView == ~view_mutated

\* ------------------------------------------------------------------ C8
\* C8: sys_get_time and sys_task_info write byte i of the record to the
\* physical byte backing user address p + i: the frame the page table maps
\* for the page of p + i, at the page offset of p + i.
C8_RecordBytesLand ==
    (last.op \in {"get_time", "task_info"} /\ last.exit = "done"
       /\ \A i \in DOMAIN written : Mapped(mem, floor(written[i].va)))
    => \A i \in DOMAIN written :
         written[i].pa
           = Translation(mem, floor(written[i].va)).ppn * PAGE_SIZE
             + page_offset(written[i].va)

\* ------------------------------------------------------------------ C9
\* C9: when frame_alloc fails for a page of the apply phase after an earlier
\* page of the call got a frame, sys_mmap does not answer -1 and the pages
\* handled before stay mapped to the ppn they were given.
C9_NoRollbackOnExhaustion ==
    CallPoint =>
      \A start \in AlignedStarts, len \in Lens, port \in ReqPorts :
        InRange(start, len)
        => LET r == sys_mmap(Now, start, len, port)
               g == r.k.given
           IN (\E j \in 2..Len(g) : g[j] = 0 /\ g[1] # 0)
              => /\ r.exit \in {"done", "panic"}
                 /\ r.exit = "done" => r.ret = 0
                 /\ \A i \in 1..Len(g) :
                      (i < Len(g) \/ r.exit = "done")
                      => LET t == Translation(r.k.mem,
                                              start \div PAGE_SIZE + i - 1)
                         IN t.mapped /\ t.ppn = g[i]

\* an mmap of two pages returned 0 with the second page left without frame
C9_Witness ==
    /\ last.op = "mmap" /\ last.exit = "done" /\ last.ret = 0
    /\ Len(given) = 2 /\ given[1] # 0 /\ given[2] = 0
    /\ free = << >>

\* ------------------------------------------------------------------ C10
\* C10: for every page-aligned start, sys_munmap(start, 0) and
\* sys_mmap(start, 0, port) with a valid port return 0, change no entry and
\* allocate no frame.
C10_ZeroLenNoOp ==
    CallPoint =>
      \A start \in AlignedStarts :
        /\ LET r == sys_munmap(Now, start, 0)
           IN r.exit = "done" /\ r.ret = 0 /\ Untouched(r)
        /\ \A port \in ValidPorts :
             LET r == sys_mmap(Now, start, 0, port)
             IN r.exit = "done" /\ r.ret = 0 /\ Untouched(r)

\* ------------------------------------------------------------------ C11
UnalignedStarts == Starts \ AlignedStarts
\* every value of the low four bits of port
AnyPorts == 0..15

\* C11: for every start that is not a multiple of the page size, and any
\* len and port, sys_mmap and sys_munmap return -1 and leave the page table
\* and the frame allocator unchanged.
C11_UnalignedRejected ==
    /\ (last.op \in {"mmap", "munmap"} /\ ~last.aligned)
         => last.exit = "invalid" /\ last.ret = -1
    /\ CallPoint =>
         \A start \in UnalignedStarts, len \in Lens :
           /\ LET r == sys_munmap(Now, start, len)
              IN r.exit = "invalid" /\ r.ret = -1 /\ Untouched(r)
           /\ \A port \in AnyPorts :
                LET r == sys_mmap(Now, start, len, port)
                IN r.exit = "invalid" /\ r.ret = -1 /\ Untouched(r)

\* a sys_munmap with an unaligned start was answered -1 while page 0 is
\* mapped
C11_Witness ==
    /\ last.op = "munmap" /\ ~last.aligned
    /\ last.exit = "invalid" /\ last.ret = -1
    /\ Mapped(mem, 0)

\* ------------------------------------------------------------------ C12
\* C12: sys_mmap returns -1 and modifies nothing for every port with none
\* of bits 0..2 set or with a bit outside bits 0..2 set, whatever start and
\* len; every port in 1..7 passes the validation.
C12_PortValidated ==
    /\ (last.op = "mmap" /\ last.port \notin ValidPorts)
         => last.exit = "invalid" /\ last.ret = -1
    /\ CallPoint =>
         \A start \in Starts, len \in Lens :
           /\ \A port \in AnyPorts \ ValidPorts :
                LET r == sys_mmap(Now, start, len, port)
                IN r.exit = "invalid" /\ r.ret = -1 /\ Untouched(r)
           /\ \A port \in ValidPorts :
                start \in AlignedStarts
                => sys_mmap(Now, start, len, port).exit # "invalid"

\* a sys_mmap with an aligned start and a bit outside bits 0..2 was
\* answered -1 while page 0 is mapped
C12_Witness ==
    /\ last.op = "mmap" /\ last.aligned /\ last.port = 8
    /\ last.exit = "invalid" /\ last.ret = -1
    /\ Mapped(mem, 0)

\* ------------------------------------------------------------------ C13
\* the slot (table frame, index) of the leaf entry of page v
LeafSlot(m, v) == find_pte(m, page_table, v)

\* C13: a successful sys_munmap(start, len) returns 0 and clears exactly the
\* leaf entries of the pages of the rounded span: the translation of every
\* other page is unchanged, no entry but those leaf entries is written (no
\* intermediate entry is cleared), and no frame goes back to the allocator.
C13_MunmapClearsSpanOnly ==
    /\ (last.op = "munmap" /\ last.exit = "done") => last.ret = 0
    /\ CallPoint =>
         \A start \in AlignedStarts, len \in Lens :
           InRange(start, len)
           => LET r == sys_munmap(Now, start, len)
              IN r.exit = "done"
                 => /\ r.ret = 0
                    /\ \A v \in Pages :
                         IF v \in SpanPages(start, len)
                         THEN /\ Mapped(mem, v)
                              /\ Leaf(r.k.mem, v).some
                              /\ Leaf(r.k.mem, v).bits = PTE_empty
                         ELSE Leaf(r.k.mem, v) = Leaf(mem, v)
                    /\ \A f \in Frames, i \in 0..(ENTRIES - 1) :
                         r.k.mem[f][i] # mem[f][i]
                         => \E v \in SpanPages(start, len) :
                              LeafSlot(mem, v)
                                = [some |-> TRUE, ppn |-> f, idx |-> i]
                    /\ r.k.free = free
                    /\ r.k.frames = page_table.frames

\* a sys_munmap of two pages returned 0: both pages are unmapped, the root
\* and the two intermediate tables are still frames of the page table
C13_Witness ==
    /\ last.op = "munmap" /\ last.exit = "done" /\ last.ret = 0
    /\ cycle.phase = 2 /\ cycle.len = 2 * PAGE_SIZE
    /\ ~Mapped(mem, 0) /\ ~Mapped(mem, 1)
    /\ Len(page_table.frames) = 3

\* ------------------------------------------------------------------ C14
\* the states the PageTable calls are applied to: a call can be made, and
\* the kernel state is taken once, where a map or an unmap left it
CallPointPT ==
    /\ CanCall
    /\ last.op \in {"none", "map", "unmap"}
\* the physical page numbers an entry holds
AllPpns == 0..(PPN_MOD - 1)
\* the flag sets without the Valid bit
FlagsNoValid == {2 * n : n \in 0..127}
\* every ppn with every flag but Valid, and the largest ppn with no flag
\* and with each single flag
PpnFlagPairs ==
    (AllPpns \X {254})
    \cup ({PPN_MOD - 1} \X {0, PTE_R, PTE_W, PTE_X, PTE_U, 32, 64, 128})
\* the unmapped pages, and those of them with no unmapped page below
Unmapped == {v \in Pages : ~Mapped(mem, v)}
LowestUnmapped == {v \in Unmapped : \A w \in Unmapped : v <= w}

\* map(v, p, f) in the current state, when it returns: translate(v) is an
\* entry with ppn p and flags f | Valid, the other pages translate as before
MapHolds(v, p, f) ==
    LET k2 == map(Now, page_table, v, p, f)
        t == translate(k2.mem, page_table, v)
    IN k2.halt = "none"
       => /\ t.some
          /\ PTE_ppn(t.bits) = p
          /\ PTE_flags(t.bits) = f + PTE_V
          /\ \A w \in Pages \ {v} :
               Translation(k2.mem, w) = Translation(mem, w)

\* C14: for every page v, every ppn p and every flag set f without the
\* Valid bit, if v is unmapped then after map(v, p, f) translate(v) returns
\* an entry with ppn p and flags exactly f | Valid, and the translation of
\* every other page is unchanged.
C14_MapThenTranslate ==
    CallPointPT =>
      /\ \A v \in Unmapped, pf \in PpnFlagPairs : MapHolds(v, pf[1], pf[2])
      /\ \A v \in LowestUnmapped, f \in FlagsNoValid :
           MapHolds(v, PPN_MOD - 1, f)

\* map was called on page 0 with no flag and then on page 2 with R | U and
\* the largest ppn: both pages translate to what they were given
C14_Witness ==
    /\ last.op = "map" /\ last.exit = "done"
    /\ Translation(mem, 0) = [mapped |-> TRUE, ppn |-> 3, flags |-> PTE_V]
    /\ Translation(mem, 2)
         = [mapped |-> TRUE, ppn |-> PPN_MOD - 1,
            flags |-> PTE_V + PTE_R + PTE_U]

\* ------------------------------------------------------------------ C15
\* C15: after unmap(v) on a mapped page v, translate(v) returns no entry,
\* and after a successful sys_munmap translate returns no entry for every
\* page of the span.
C15_UnmapThenAbsent ==
    CallPointPT =>
      /\ \A v \in Pages :
           Mapped(mem, v)
           => LET k2 == unmap(Now, page_table, v)
              IN k2.halt = "none" /\ ~translate(k2.mem, page_table, v).some
      /\ \A start \in AlignedStarts, len \in Lens \ {0} :
           InRange(start, len)
           => LET r == sys_munmap(Now, start, len)
              IN r.exit = "done"
                 => \A v \in SpanPages(start, len) : ~Leaf(r.k.mem, v).some

\* ------------------------------------------------------------------ C16
\* C16: PageTable::map on a page whose leaf entry is valid, and
\* PageTable::unmap on a page whose leaf entry is not valid (never mapped,
\* or unmapped before), end in a fatal halt and write no entry.
C16_RemapAndReunmapFatal ==
    /\ halt = "map_assert" => last.op = "map"
    /\ CallPointPT =>
         \A v \in Pages :
           IF Mapped(mem, v)
           THEN \A pf \in PpnFlagPairs :
                  LET k2 == map(Now, page_table, v, pf[1], pf[2])
                  IN /\ k2.halt = "map_assert"
                     /\ k2.mem = mem
                     /\ k2.free = free
                     /\ k2.frames = page_table.frames
           ELSE LET k2 == unmap(Now, page_table, v)
                IN /\ k2.halt \in {"unmap_assert", "unmap_unwrap"}
                   /\ k2.mem = mem

\* map was called on page 0 while page 0 was mapped: the kernel halted in
\* the assertion of map, page 0 is still mapped
C16_Witness ==
    /\ last.op = "map" /\ halt = "map_assert"
    /\ Mapped(mem, 0) /\ ~Mapped(mem, 1)
    /\ ncalls = 2

\* ------------------------------------------------------------------ C17
\* the byte ranges the buffer is asked for
AllPtrs == 0..((MaxPage + 1) * PAGE_SIZE - 1)
AllLens == 0..(MaxSpan * PAGE_SIZE + 1)
Max(a, b) == IF a < b THEN b ELSE a
\* the pages [ptr, ptr + len) touches
Touched(ptr, len) ==
    {v \in Pages : v * PAGE_SIZE < ptr + len /\ ptr < (v + 1) * PAGE_SIZE
                      /\ len > 0}
\* the windows the claim describes: one per touched page, ascending, each
\* the part of [ptr, ptr + len) inside the page, in the frame of the page
ClaimedWindows(ptr, len) ==
    [i \in 1..Cardinality(Touched(ptr, len)) |->
       LET v == floor(ptr) + i - 1
       IN [ppn |-> Translation(mem, v).ppn,
           lo |-> Max(ptr, v * PAGE_SIZE) - v * PAGE_SIZE,
           hi |-> Min(ptr + len, (v + 1) * PAGE_SIZE) - v * PAGE_SIZE]]
RECURSIVE WindowBytes(_)
WindowBytes(ws) ==
    IF ws = << >> THEN 0
    ELSE (Head(ws).hi - Head(ws).lo) + WindowBytes(Tail(ws))

\* C17: for every ptr and len whose pages are all mapped,
\* translated_byte_buffer returns one window per page touched by
\* [ptr, ptr + len), in ascending order, each the intersection of the range
\* with its page in the frame the page translates to; the lengths sum to
\* len, and no window is returned when len = 0.
C17_BufferWindows ==
    CallPointPT =>
      \A ptr \in AllPtrs, len \in AllLens :
        (InRange(ptr, len) /\ \A v \in Touched(ptr, len) : Mapped(mem, v))
        => LET r == translated_byte_buffer(Now, token(page_table), ptr, len)
           IN /\ r.exit = "done"
              /\ r.bytes = ClaimedWindows(ptr, len)
              /\ WindowBytes(r.bytes) = len
              /\ r.k.mem = mem

\* the buffer of PAGE_SIZE bytes from offset 1 of page 0 came back as two
\* windows, in the frames of pages 0 and 1
C17_Witness ==
    /\ last.op = "buffer" /\ last.exit = "done"
    /\ Mapped(mem, 0) /\ Mapped(mem, 1)
    /\ Len(written) = 2
    /\ written[1] = [ppn |-> Translation(mem, 0).ppn, lo |-> 1,
                      hi |-> PAGE_SIZE]
    /\ written[2] = [ppn |-> Translation(mem, 1).ppn, lo |-> 0, hi |-> 1]
    /\ written[1].ppn # written[2].ppn

\* ------------------------------------------------------------------ C18
\* C18: translated_byte_buffer ends in a fatal halt and returns no window
\* whenever a page touched by [ptr, ptr + len) has no valid translation, be
\* it that its table is missing or that only its leaf entry is invalid.
C18_BufferUnmappedFatal ==
    CallPointPT =>
      \A ptr \in AllPtrs, len \in AllLens :
        (InRange(ptr, len) /\ \E v \in Touched(ptr, len) : ~Mapped(mem, v))
        => LET r == translated_byte_buffer(Now, token(page_table), ptr, len)
           IN r.exit = "panic" /\ r.bytes = << >>

\* ------------------------------------------------------------------ C19
\* C19: token() is (8 << 60) | root_ppn; for every root ppn below the ppn
\* width, from_token(pt.token()) has the root ppn of pt, and translate on
\* the view built from the token returns what translate on pt returns, for
\* every page.
C19_TokenRoundTrip ==
    /\ \A root \in AllPpns :
         LET pt == [root_ppn |-> root, frames |-> << root >>]
         IN /\ token(pt) \div SATP_MODE = 8
            /\ token(pt) % SATP_MODE = root
            /\ from_token(token(pt)).root_ppn = root
    /\ \A v \in Pages :
         translate(mem, from_token(token(page_table)), v)
           = translate(mem, page_table, v)

\* translated_byte_buffer, called with the token of the page table, found
\* the frame map gave page 2
C19_Witness ==
    /\ last.op = "buffer" /\ last.exit = "done"
    /\ Translation(mem, 2).ppn = PPN_MOD - 1
    /\ written = << [ppn |-> PPN_MOD - 1, lo |-> 1, hi |-> PAGE_SIZE] >>

\* ------------------------------------------------------------------ C20
\* C20: translate (through find_pte) is read-only for every page in every
\* state: it allocates no frame, creates no table, changes no entry and
\* leaves the frame set; so the check phases of sys_mmap and sys_munmap
\* have no side effect before the first map or unmap of the apply phase.
C20_TranslateReadOnly ==
    CallPoint =>
      /\ \A v \in Pages :
           LET t == translate_step(Now, page_table, v)
           IN /\ t.k = Now
              /\ [some |-> t.some, bits |-> t.bits]
                   = translate(mem, page_table, v)
      /\ \A start \in AlignedStarts, len \in Lens :
           InRange(start, len)
           => LET pt == from_token(current_user_token)
                  bound == span_bound(span_last(start, len))
              IN /\ mmap_check_step(Now, pt, start, bound) = Now
                 /\ munmap_check_step(Now, pt, start, bound) = Now
                 /\ \A port \in ReqPorts :
                      LET r == sys_mmap(Now, start, len, port)
                      IN r.exit = "conflict" => Untouched(r)
                 /\ LET r == sys_munmap(Now, start, len)
                    IN r.exit = "absent" => Untouched(r)

\* a sys_munmap was rejected by its check: page 0 is mapped, page 1 has a
\* leaf table and no translation, and page 2 has no table
C20_Witness ==
    /\ last.op = "munmap" /\ last.exit = "absent" /\ last.ret = -1
    /\ Mapped(mem, 0)
    /\ Leaf(mem, 1).some /\ ~Mapped(mem, 1)
    /\ ~Leaf(mem, 2).some

\* ------------------------------------------------------------------ C21
Idx == 0..(ENTRIES - 1)
\* the table frames the walk reaches below the root: second level, third
TablesL2(m) ==
    {PTE_ppn(m[page_table.root_ppn][i]) :
       i \in {j \in Idx : PTE_is_valid(m[page_table.root_ppn][j])}}
TablesL3(m) ==
    UNION {{PTE_ppn(m[t][i]) : i \in {j \in Idx : PTE_is_valid(m[t][j])}} :
             t \in TablesL2(m) \cap Frames}
\* the valid entries of the first two levels carry Valid and nothing else,
\* and point at frames of fr; the valid leaves carry one of R, W, X
WellFormed(m, fr) ==
    /\ \A t \in {page_table.root_ppn} \cup (TablesL2(m) \cap Frames),
          i \in Idx :
         PTE_is_valid(m[t][i])
         => /\ PTE_flags(m[t][i]) = PTE_V
            /\ PTE_ppn(m[t][i]) \in Range(fr)
    /\ \A t \in TablesL3(m) \cap Frames, i \in Idx :
         PTE_is_valid(m[t][i])
         => \E b \in {PTE_R, PTE_W, PTE_X} : HasBit(PTE_flags(m[t][i]), b)
\* q starts with p
IsPrefix(p, q) == Len(p) <= Len(q) /\ SubSeq(q, 1, Len(p)) = p

\* C21: in every state sys_mmap and sys_munmap calls reach from a table
\* built by new(), every valid entry of the first two levels has flags
\* exactly Valid and points to a frame of the table's frame set, every
\* valid leaf carries one of R, W, X, and the frame set only grows: a call
\* adds at most two table frames per page it maps, and no frame of the set
\* is removed or goes back to the allocator.
C21_TableShape ==
    /\ WellFormed(mem, page_table.frames)
    /\ Range(page_table.frames) \cap Range(free) = {}
    /\ Cardinality(Range(page_table.frames)) = Len(page_table.frames)
    /\ CallPoint =>
         \A start \in AlignedStarts, len \in Lens :
           InRange(start, len)
           => /\ \A port \in ReqPorts :
                   LET r == sys_mmap(Now, start, len, port)
                   IN /\ IsPrefix(page_table.frames, r.k.frames)
                      /\ Len(r.k.frames)
                           <= Len(page_table.frames) + 2 * Len(r.k.given)
                      /\ Range(r.k.frames) \cap Range(r.k.free) = {}
                      /\ WellFormed(r.k.mem, r.k.frames)
              /\ LET r == sys_munmap(Now, start, len)
                 IN /\ r.k.frames = page_table.frames
                    /\ Range(r.k.frames) \cap Range(r.k.free) = {}

\* two sys_mmap calls created three tables below the root: every frame is
\* a frame of the table, none is free, page 2 is mapped
C21_Witness ==
    /\ last.op = "mmap" /\ last.exit = "done"
    /\ Len(page_table.frames) = 4
    /\ Mapped(mem, 0) /\ Mapped(mem, 2)
    /\ Cardinality(TablesL3(mem)) = 2

====
